---- MODULE Spec2Model ----
(***************************************************************************)
(* A model of the bw-cli sidecar (src/main.go): the startup sequence of    *)
(* main (login -> unlock -> serve -> readiness poll -> proxy + periodic    *)
(* sync), the /healthz, /sync and catch-all handlers of setupRouter, and   *)
(* the periodic sync loop.                                                 *)
(***************************************************************************)
EXTENDS Integers, Sequences, FiniteSets, TLC

\* ------------------------------------------------------------------------
\* Bounds of the model
\* ------------------------------------------------------------------------

\* number of HTTP requests the proxy server handles at the same time
MaxReq == 2

\* ------------------------------------------------------------------------
\* Program constants
\* ------------------------------------------------------------------------

\* var bwServeWaitRetries = 30
bwServeWaitRetries == 30

\* var bwServeWaitInterval = 1 * time.Second (in milliseconds)
bwServeWaitInterval == 1000

\* syncInterval = 2 * time.Minute (in milliseconds), the fallback of startPeriodicSync
DefaultSyncInterval == 120000

\* the process has not exited
Running == -1

\* an environment variable that is not set
Unset == "<unset>"

\* ------------------------------------------------------------------------
\* Loosely typed JSON values (encoding/json into interface{})
\* ------------------------------------------------------------------------

JNull == [t |-> "null"]
JBool == [t |-> "bool"]
JNum == [t |-> "number"]
JArr == [t |-> "array"]
JStr(s) == [t |-> "string", s |-> s]
JObj(m) == [t |-> "object", m |-> m]

\* a key that is not present in an object (only used to build objects)
Absent == [t |-> "absent"]

\* the object with the keys of ks whose value is not Absent
MkObj(ks, val(_)) == JObj([k \in {x \in ks : val(x) # Absent} |-> val(k)])

\* v[k] of a Go map: the nil interface when the key is missing
MapIndex(m, k) == IF k \in DOMAIN m THEN m[k] ELSE JNull

\* x.(map[string]interface{}) : ok
IsMap(x) == x.t = "object"

\* x.(string) : ok
IsString(x) == x.t = "string"

\* a bug a type switch could have: any non-nil status counts as unlocked
isUnlockedAnyStatus(v) ==
    \/ IsString(MapIndex(v, "status"))
    \/ /\ IsMap(MapIndex(v, "data"))
       /\ IsString(MapIndex(MapIndex(v, "data").m, "status"))

\* func isUnlocked(v map[string]interface{}) bool
isUnlocked(v) ==
    LET data == MapIndex(v, "data") IN
    IF IsMap(data)
         /\ LET template == MapIndex(data.m, "template") IN
            \/ /\ IsMap(template)
               /\ LET status == MapIndex(template.m, "status") IN
                  IsString(status) /\ status.s = "unlocked"
            \/ LET status == MapIndex(data.m, "status") IN
               IsString(status) /\ status.s = "unlocked"
    THEN TRUE
    ELSE LET status == MapIndex(v, "status") IN
         IsString(status) /\ status.s = "unlocked"

\* the shapes a status field takes: absent, "unlocked", another string, wrong-typed
StatusShapes ==
    {Absent, JStr("unlocked"), JStr("locked"), JNull, JBool, JNum, JArr, JObj(<<>>)}

\* the shapes of data.template
TemplateShapes ==
    {Absent, JStr("unlocked"), JStr("locked"), JNull, JBool, JNum, JArr}
    \cup {MkObj({"status"}, LAMBDA k : s) : s \in StatusShapes}

\* the shapes of data
DataShapes ==
    {Absent, JStr("unlocked"), JStr("locked"), JNull, JBool, JNum, JArr}
    \cup {MkObj({"status", "template"}, LAMBDA k : IF k = "status" THEN s ELSE tp) :
             s \in StatusShapes, tp \in TemplateShapes}

\* every JSON object payload of the unlock-predicate truth table
AllPayloads ==
    {MkObj({"status", "data"}, LAMBDA k : IF k = "status" THEN s ELSE d) :
        s \in StatusShapes, d \in DataShapes}

\* ------------------------------------------------------------------------
\* Strings the program takes apart are sequences of characters
\* ------------------------------------------------------------------------

\* the characters strings.TrimSpace removes: Unicode's White_Space property
\* (unicode.IsSpace). A character without an escape in a string literal is
\* written as its code point.
IsSpace(c) ==
    c \in {"\t", "\n", "U+000B", "\f", "\r", " ", "U+0085", "U+00A0", "U+1680",
           "U+2000", "U+2001", "U+2002", "U+2003", "U+2004", "U+2005", "U+2006",
           "U+2007", "U+2008", "U+2009", "U+200A", "U+2028", "U+2029", "U+202F",
           "U+205F", "U+3000"}

RECURSIVE TrimLeft(_)
TrimLeft(s) == IF s # <<>> /\ IsSpace(Head(s)) THEN TrimLeft(Tail(s)) ELSE s

RECURSIVE TrimRight(_)
TrimRight(s) ==
    IF s # <<>> /\ IsSpace(s[Len(s)]) THEN TrimRight(SubSeq(s, 1, Len(s) - 1)) ELSE s

\* strings.TrimSpace
TrimSpace(s) == TrimRight(TrimLeft(s))

\* os.Setenv fails on a value that holds a NUL byte
SetenvFails(value) == \E n \in 1..Len(value) : value[n] = "NUL"

\* what `bw unlock --raw` may print
UnlockOutputs ==
    {<<"k">>, <<" ", "k", "\n">>, <<"\f", "k", "U+00A0">>, <<"k", "NUL", "\n">>}

\* BW_SESSION before main sets it
NoSession == <<"unset">>

\* exit statuses of an external command
ExitCodes == {0, 1}

\* combined output of an external sync command
SyncOutputs == {"Sync successful", "boom"}

\* ------------------------------------------------------------------------
\* Environment
\* ------------------------------------------------------------------------

EnvKeys ==
    {"BW_HOST", "BW_CLIENTID", "BW_CLIENTSECRET", "BW_PASSWORD", "BW_DISABLE_SYNC",
     "BW_SYNC_INTERVAL", "BW_SERVE_WAIT_RETRIES", "BW_SERVE_WAIT_INTERVAL"}

\* the poll retry settings of the environment: unset, or 2 attempts 10ms apart
RetryEnvs == {<<Unset, Unset>>, <<"2", "10ms">>}

\* an environment of the sidecar
Environment(h, id, sec, pw, dis, iv, re) ==
    [k \in EnvKeys |->
        CASE k = "BW_HOST" -> h
          [] k = "BW_CLIENTID" -> id
          [] k = "BW_CLIENTSECRET" -> sec
          [] k = "BW_PASSWORD" -> pw
          [] k = "BW_DISABLE_SYNC" -> dis
          [] k = "BW_SYNC_INTERVAL" -> iv
          [] k = "BW_SERVE_WAIT_RETRIES" -> re[1]
          [] OTHER -> re[2]]

\* the environments the sidecar is started in: every combination of the
\* settings of the login, every combination of the settings of the periodic
\* sync, and the poll retry settings with the periodic sync on and off
Environments ==
    {Environment(h, id, sec, pw, Unset, Unset, <<Unset, Unset>>) :
        h \in {Unset, "vault.example"}, id \in {Unset, "id"}, sec \in {"", "secret"},
        pw \in {Unset, "pw"}}
    \cup {Environment(Unset, "id", "secret", "pw", dis, iv, <<Unset, Unset>>) :
        dis \in {Unset, "true"}, iv \in {Unset, "", "abc", "1m", "0s", "-1m"}}
    \cup {Environment(Unset, "id", "secret", "pw", dis, Unset, re) :
        dis \in {Unset, "true"}, re \in RetryEnvs}

\* os.Getenv: the value, "" when the variable is not set
Getenv(e, key) == IF e[key] = Unset THEN "" ELSE e[key]

\* func getEnv(key, fallback string) string
getEnv(e, key, fallback) ==
    IF e[key] # Unset /\ e[key] # "" THEN e[key] ELSE fallback

\* time.ParseDuration on the strings of the model, in milliseconds
ParseDuration(str) ==
    CASE str = "2m" -> [err |-> FALSE, d |-> 120000]
      [] str = "1m" -> [err |-> FALSE, d |-> 60000]
      [] str = "0s" -> [err |-> FALSE, d |-> 0]
      [] str = "-1m" -> [err |-> FALSE, d |-> 0 - 60000]
      [] str = "10ms" -> [err |-> FALSE, d |-> 10]
      [] OTHER -> [err |-> TRUE, d |-> 0]

\* ------------------------------------------------------------------------
\* The status query of the readiness poller
\* ------------------------------------------------------------------------

\* a body that is not JSON
InvalidJSON == [t |-> "invalid"]

\* json.Unmarshal(body, &v) with v a map[string]interface{}
Unmarshal(body) ==
    CASE body.t = "object" -> [err |-> FALSE, v |-> body.m]
      [] body.t = "null" -> [err |-> FALSE, v |-> <<>>]
      [] OTHER -> [err |-> TRUE, v |-> <<>>]

\* the status payloads `bw serve` is polled with
StatusPayloads ==
    {JObj([data |-> JObj([template |-> JObj([status |-> JStr("unlocked")])])]),
     JObj([data |-> JObj([status |-> JStr("unlocked")])]),
     JObj([status |-> JStr("unlocked")]),
     JObj([data |-> JObj([template |-> JObj([status |-> JStr("locked")])])]),
     JObj(<<>>),
     JObj([data |-> JNum]),
     JObj([data |-> JObj([template |-> JArr])]),
     JObj([status |-> JObj(<<>>)])}

\* client.Get failed (connection refused, timeout)
NetErr == [err |-> TRUE, code |-> 0, readErr |-> FALSE, body |-> InvalidJSON]

HttpResp(code, readErr, body) ==
    [err |-> FALSE, code |-> code, readErr |-> readErr, body |-> body]

\* what GET /status may give: only `bw serve` listens on the port, so the
\* connection is refused unless the child process runs
StatusResponses(child) ==
    IF child # "running" THEN {NetErr}
    ELSE {NetErr}
         \cup {HttpResp(503, FALSE, b) : b \in {InvalidJSON, JObj([status |-> JStr("unlocked")])}}
         \cup {HttpResp(200, TRUE, InvalidJSON)}
         \cup {HttpResp(200, FALSE, b) : b \in {InvalidJSON, JArr, JNull} \cup StatusPayloads}

\* a bug of the attempt: a failed GET is taken for a ready service
AttemptReadyOnError(resp) ==
    \/ resp.err
    \/ /\ resp.code = 200 /\ ~resp.readErr
       /\ ~Unmarshal(resp.body).err
       /\ isUnlocked(Unmarshal(resp.body).v)

\* a bug of the attempt: the status code of the response is not looked at
AttemptReadyAnyCode(resp) ==
    /\ ~resp.err
    /\ ~resp.readErr
    /\ ~Unmarshal(resp.body).err
    /\ isUnlocked(Unmarshal(resp.body).v)

\* one attempt of waitForBwServe: does it return nil?
AttemptReady(resp) ==
    /\ ~resp.err
    /\ resp.code = 200 /\ ~resp.readErr
    /\ ~Unmarshal(resp.body).err
    /\ isUnlocked(Unmarshal(resp.body).v)

\* ------------------------------------------------------------------------
\* State
\* ------------------------------------------------------------------------

VARIABLES
    env,           \* the environment variables main is started with
    bwSession,     \* the BW_SESSION environment variable
    setenvCount,   \* how often BW_SESSION has been written
    mainPc,        \* where the main goroutine is
    exitCode,      \* the exit status of the sidecar, Running while it runs
    spawned,       \* the startup commands spawned so far, in order
    sessionToken,  \* sessionToken of main
    servePc,       \* the startBwServe goroutine and its child process
    serveSession,  \* the --session argument `bw serve` was spawned with
    i,             \* the loop counter of waitForBwServe
    gets,          \* status GETs issued by waitForBwServe
    sleeps,        \* retry sleeps of waitForBwServe
    lastKind,      \* the kind of outcome of the last attempt of waitForBwServe
    waitResult,    \* what waitForBwServe returned: "none", "ok", "timeout"
    proxyPc,       \* the startProxyServer goroutine
    syncPc,        \* the startPeriodicSync goroutine
    syncInterval,  \* syncInterval of startPeriodicSync
    syncReq,       \* the request of the periodic sync in flight, 0 if none
    syncWarned,    \* startPeriodicSync has printed its WARN line
    tickPending,   \* a tick waits in the channel of the ticker (it holds one tick)
    syncFailed,    \* the last tick of the periodic sync printed a failure
    slots,         \* the requests the proxy server is handling
    payload,       \* the argument of a call of isUnlocked on its own
    unlockResult   \* what that call returned

vars ==
    <<env, bwSession, setenvCount, mainPc, exitCode, spawned, sessionToken, servePc,
      serveSession, i, gets, sleeps, lastKind, waitResult, proxyPc, syncPc, syncInterval,
      syncReq, syncWarned, tickPending, syncFailed, slots, payload, unlockResult>>

mainVars == <<mainPc, spawned, sessionToken>>
sessionVars == <<bwSession, setenvCount>>
serveVars == <<servePc, serveSession>>
waitVars == <<i, gets, sleeps, lastKind, waitResult>>
proxyVars == <<proxyPc, slots>>
syncVars == <<syncPc, syncInterval, syncReq, syncWarned, tickPending, syncFailed>>
unlockVars == <<payload, unlockResult>>

Req == 1..MaxReq

\* a request slot no request occupies
FreeSlot ==
    [pc |-> "free", origin |-> "", method |-> "", path |-> "", spawns |-> 0,
     cmdExit |-> Running, cmdOut |-> "", forwarded |-> FALSE, status |-> 0, body |-> ""]

Alive == exitCode = Running

Init ==
    /\ env \in Environments
    /\ bwSession = NoSession
    /\ setenvCount = 0
    /\ mainPc = "secrets"
    /\ exitCode = Running
    /\ spawned = <<>>
    /\ sessionToken = <<>>
    /\ servePc = "none"
    /\ serveSession = <<>>
    /\ i = 0
    /\ gets = 0
    /\ sleeps = 0
    /\ lastKind = "none"
    /\ waitResult = "none"
    /\ proxyPc = "off"
    /\ syncPc = "off"
    /\ syncInterval = 0
    /\ syncReq = 0
    /\ syncWarned = FALSE
    /\ tickPending = FALSE
    /\ syncFailed = FALSE
    /\ slots = [r \in Req |-> FreeSlot]
    /\ payload = JNull
    /\ unlockResult = "none"

\* isUnlocked called on its own, as TestIsUnlocked does, on every payload shape
InitUnlock ==
    /\ env = [k \in EnvKeys |-> Unset]
    /\ bwSession = NoSession
    /\ setenvCount = 0
    /\ mainPc = "secrets"
    /\ exitCode = Running
    /\ spawned = <<>>
    /\ sessionToken = <<>>
    /\ servePc = "none"
    /\ serveSession = <<>>
    /\ i = 0
    /\ gets = 0
    /\ sleeps = 0
    /\ lastKind = "none"
    /\ waitResult = "none"
    /\ proxyPc = "off"
    /\ syncPc = "off"
    /\ syncInterval = 0
    /\ syncReq = 0
    /\ syncWarned = FALSE
    /\ tickPending = FALSE
    /\ syncFailed = FALSE
    /\ slots = [r \in Req |-> FreeSlot]
    /\ payload \in AllPayloads
    /\ unlockResult = "none"

\* the call isUnlocked(payload)
CallIsUnlocked ==
    /\ unlockResult = "none"
    /\ unlockResult' = IF isUnlocked(payload.m) THEN "true" ELSE "false"
    /\ UNCHANGED <<env, exitCode, mainVars, sessionVars, serveVars, waitVars, proxyVars,
                   syncVars, payload>>

NextUnlock == CallIsUnlocked

SpecUnlock == InitUnlock /\ [][NextUnlock]_vars

\* ------------------------------------------------------------------------
\* main, part 1: loginAndGetSession and BW_SESSION
\* ------------------------------------------------------------------------

\* a bug of the secrets check: the unlock password is not looked at
SecretsMissingButPassword(e) ==
    \/ Getenv(e, "BW_CLIENTID") = ""
    \/ Getenv(e, "BW_CLIENTSECRET") = ""

\* the secrets check of loginAndGetSession
SecretsMissing(e) ==
    \/ Getenv(e, "BW_CLIENTID") = ""
    \/ Getenv(e, "BW_CLIENTSECRET") = ""
    \/ Getenv(e, "BW_PASSWORD") = ""

\* a bug of main: the error of loginAndGetSession is dropped
LoginFatalNever(err) == FALSE

\* main: if err != nil after loginAndGetSession
LoginFatal(err) == err

\* loginAndGetSession returns ("", err): main exits, or goes on with the empty token
LoginReturnsError ==
    IF LoginFatal(TRUE)
    THEN /\ exitCode' = 1
         /\ UNCHANGED <<mainPc, sessionToken>>
    ELSE /\ mainPc' = "setenv"
         /\ sessionToken' = <<>>
         /\ UNCHANGED exitCode

\* loginAndGetSession up to its first command
LoginCheckSecrets ==
    /\ Alive /\ mainPc = "secrets"
    /\ IF SecretsMissing(env)
       THEN LoginReturnsError
       ELSE /\ mainPc' = IF Getenv(env, "BW_HOST") # "" THEN "config" ELSE "login"
            /\ UNCHANGED <<exitCode, sessionToken>>
    /\ UNCHANGED <<env, spawned, sessionVars, serveVars, waitVars, proxyVars, syncVars,
                   unlockVars>>

\* err != nil of CombinedOutput
CommandFailed(code) == code # 0

\* bw config server <host>
LoginConfig ==
    /\ Alive /\ mainPc = "config"
    /\ spawned' = Append(spawned, "config")
    /\ \E code \in ExitCodes :
          IF CommandFailed(code)
          THEN LoginReturnsError
          ELSE /\ mainPc' = "login"
               /\ UNCHANGED <<exitCode, sessionToken>>
    /\ UNCHANGED <<env, sessionVars, serveVars, waitVars, proxyVars, syncVars, unlockVars>>

\* bw login --apikey
LoginLogin ==
    /\ Alive /\ mainPc = "login"
    /\ spawned' = Append(spawned, "login")
    /\ \E code \in ExitCodes :
          IF CommandFailed(code)
          THEN LoginReturnsError
          ELSE /\ mainPc' = "unlock"
               /\ UNCHANGED <<exitCode, sessionToken>>
    /\ UNCHANGED <<env, sessionVars, serveVars, waitVars, proxyVars, syncVars, unlockVars>>

\* bw unlock --passwordenv BW_PASSWORD --raw, and the return of the trimmed token
LoginUnlock ==
    /\ Alive /\ mainPc = "unlock"
    /\ spawned' = Append(spawned, "unlock")
    /\ \E code \in ExitCodes, out \in UnlockOutputs :
          IF CommandFailed(code)
          THEN LoginReturnsError
          ELSE /\ mainPc' = "setenv"
               /\ sessionToken' = TrimSpace(out)
               /\ UNCHANGED exitCode
    /\ UNCHANGED <<env, sessionVars, serveVars, waitVars, proxyVars, syncVars, unlockVars>>

\* a bug of main: the error of os.Setenv is dropped
SetenvFatalNever(err) == FALSE

\* main: if err != nil after os.Setenv
SetenvFatal(err) == err

\* os.Setenv("BW_SESSION", sessionToken)
MainSetenv ==
    /\ Alive /\ mainPc = "setenv"
    /\ IF SetenvFails(sessionToken)
       THEN /\ UNCHANGED sessionVars
            /\ IF SetenvFatal(TRUE)
               THEN /\ exitCode' = 1
                    /\ UNCHANGED mainPc
               ELSE /\ mainPc' = "goServe"
                    /\ UNCHANGED exitCode
       ELSE /\ bwSession' = sessionToken
            /\ setenvCount' = setenvCount + 1
            /\ mainPc' = "goServe"
            /\ UNCHANGED exitCode
    /\ UNCHANGED <<env, spawned, sessionToken, serveVars, waitVars, proxyVars, syncVars,
                   unlockVars>>

\* ------------------------------------------------------------------------
\* startBwServe
\* ------------------------------------------------------------------------

\* go startBwServe(bwServePort, sessionToken)
MainGoServe ==
    /\ Alive /\ mainPc = "goServe"
    /\ servePc' = "scheduled"
    /\ mainPc' = "wait"
    /\ UNCHANGED <<env, exitCode, spawned, sessionToken, sessionVars, serveSession,
                   waitVars, proxyVars, syncVars, unlockVars>>

\* startBwServe spawns `bw serve` and blocks in cmd.Run
ServeSpawn ==
    /\ Alive /\ servePc = "scheduled"
    /\ servePc' = "running"
    /\ serveSession' = sessionToken
    /\ spawned' = Append(spawned, "serve")
    /\ UNCHANGED <<env, exitCode, mainPc, sessionToken, sessionVars, waitVars, proxyVars,
                   syncVars, unlockVars>>

\* err != nil of cmd.Run
ServeRunFailed(code) == code # 0

\* `bw serve` terminates with code and cmd.Run returns
ServeExit ==
    /\ Alive /\ servePc = "running"
    /\ \E code \in ExitCodes :
          IF ServeRunFailed(code)
          THEN /\ exitCode' = 1
               /\ servePc' = "failed"
          ELSE /\ servePc' = "returned"
               /\ UNCHANGED exitCode
    /\ UNCHANGED <<env, mainVars, sessionVars, serveSession, waitVars, proxyVars,
                   syncVars, unlockVars>>

\* ------------------------------------------------------------------------
\* waitForBwServe
\* ------------------------------------------------------------------------

\* the three places of the unlock signal
UnlockPaths == {<<"status">>, <<"data", "status">>, <<"data", "template", "status">>}

\* the node at path below node, through objects only
RECURSIVE Descend(_, _)
Descend(node, path) ==
    IF path = <<>> THEN node
    ELSE IF node.t = "object" THEN Descend(MapIndex(node.m, Head(path)), Tail(path))
    ELSE JNull

\* the unlock signal as documented (the properties compare isUnlocked with
\* it): one of the three places holds the string "unlocked"
UnlockSignal(v) == \E path \in UnlockPaths : Descend(JObj(v), path) = JStr("unlocked")

\* the kind of outcome of one status GET
Kind(resp) ==
    CASE resp.err -> "neterr"
      [] ~resp.err /\ resp.code # 200 -> "non200"
      [] ~resp.err /\ resp.code = 200 /\ resp.readErr -> "readerr"
      [] ~resp.err /\ resp.code = 200 /\ ~resp.readErr /\ resp.body.t \notin {"object", "null"}
           -> "badjson"
      [] OTHER -> IF resp.body.t = "object" /\ UnlockSignal(resp.body.m)
                  THEN "unlocked" ELSE "locked"

\* a bug of the loop: one attempt too many
WaitLoopCondOffByOne(n) == n <= bwServeWaitRetries

\* the loop of waitForBwServe has attempts left
WaitLoopCond(n) == n < bwServeWaitRetries

\* one attempt of waitForBwServe begins: client.Get sends the GET and blocks
WaitGetIssue ==
    /\ Alive /\ mainPc = "wait" /\ WaitLoopCond(i)
    /\ gets' = gets + 1
    /\ mainPc' = "getting"
    /\ UNCHANGED <<env, exitCode, spawned, sessionToken, sessionVars, serveVars, i, sleeps,
                   lastKind, waitResult, proxyVars, syncVars, unlockVars>>

\* client.Get returns with what the backing service answers at that moment, and
\* the attempt evaluates it
WaitGetReturn ==
    /\ Alive /\ mainPc = "getting"
    /\ \E resp \in StatusResponses(servePc) :
          /\ lastKind' = Kind(resp)
          /\ IF AttemptReady(resp)
             THEN /\ waitResult' = "ok"
                  /\ mainPc' = "ready"
             ELSE /\ mainPc' = "sleep"
                  /\ UNCHANGED waitResult
    /\ UNCHANGED <<env, exitCode, spawned, sessionToken, sessionVars, serveVars, i, gets,
                   sleeps, proxyVars, syncVars, unlockVars>>

\* time.Sleep(bwServeWaitInterval); i++
WaitSleep ==
    /\ Alive /\ mainPc = "sleep"
    /\ sleeps' = sleeps + 1
    /\ i' = i + 1
    /\ mainPc' = "wait"
    /\ UNCHANGED <<env, exitCode, spawned, sessionToken, sessionVars, serveVars, gets, lastKind,
                   waitResult, proxyVars, syncVars, unlockVars>>

\* a bug of main: the error of waitForBwServe is dropped
WaitFatalNever(err) == FALSE

\* main: if err != nil after waitForBwServe
WaitFatal(err) == err

\* the loop is over: waitForBwServe returns the timeout error and main exits
WaitTimeout ==
    /\ Alive /\ mainPc = "wait" /\ ~WaitLoopCond(i)
    /\ waitResult' = "timeout"
    /\ IF WaitFatal(TRUE)
       THEN /\ exitCode' = 1
            /\ UNCHANGED mainPc
       ELSE /\ mainPc' = "ready"
            /\ UNCHANGED exitCode
    /\ UNCHANGED <<env, spawned, sessionToken, sessionVars, serveVars, i, gets, sleeps,
                   lastKind, proxyVars, syncVars, unlockVars>>

\* ------------------------------------------------------------------------
\* main, part 2: the proxy server and the periodic sync
\* ------------------------------------------------------------------------

\* go startProxyServer(bwProxyPort, bwServePort); the frame of waitForBwServe is gone
MainGoProxy ==
    /\ Alive /\ mainPc = "ready"
    /\ proxyPc' = "scheduled"
    /\ mainPc' = "goSync"
    /\ i' = 0 /\ gets' = 0 /\ sleeps' = 0 /\ lastKind' = "none"
    /\ UNCHANGED <<env, exitCode, spawned, sessionToken, sessionVars, serveVars, waitResult,
                   slots, syncVars, unlockVars>>

\* a bug of main: the sync-disable flag is not looked at
SyncEnabledAlways(e) == TRUE

\* getEnv("BW_DISABLE_SYNC", "false") != "true"
SyncEnabled(e) == getEnv(e, "BW_DISABLE_SYNC", "false") # "true"

\* go startPeriodicSync(...) unless disabled, then select {}
MainGoSync ==
    /\ Alive /\ mainPc = "goSync"
    /\ syncPc' = IF SyncEnabled(env) THEN "scheduled" ELSE syncPc
    /\ mainPc' = "blocked"
    /\ UNCHANGED <<env, exitCode, spawned, sessionToken, sessionVars, serveVars, waitVars,
                   proxyVars, syncInterval, syncReq, syncWarned, tickPending, syncFailed,
                   unlockVars>>

\* startProxyServer: http.ListenAndServe listens, or fails and the sidecar exits
ProxyListen ==
    /\ Alive /\ proxyPc = "scheduled"
    /\ \E ok \in BOOLEAN :
          IF ok
          THEN /\ proxyPc' = "listening"
               /\ UNCHANGED exitCode
          ELSE /\ exitCode' = 1
               /\ UNCHANGED proxyPc
    /\ UNCHANGED <<env, mainVars, sessionVars, serveVars, waitVars, slots, syncVars,
                   unlockVars>>

\* ------------------------------------------------------------------------
\* setupRouter: the handlers of the proxy server
\* ------------------------------------------------------------------------

Methods == {"GET", "POST"}
Paths == {"/healthz", "/sync", "/status"}

\* the routing of the ServeMux
Route(path) ==
    CASE path = "/healthz" -> "health"
      [] path = "/sync" -> "sync"
      [] OTHER -> "proxy"

\* the request as it enters the handler
NewRequest(origin, method, path) ==
    [FreeSlot EXCEPT !.pc = "handling", !.origin = origin, !.method = method, !.path = path]

\* a bug of the /healthz handler: it answers for the backing service
HandleHealthOfBackend(q) ==
    IF servePc = "running"
    THEN [q EXCEPT !.pc = "done", !.status = 200, !.body = "OK"]
    ELSE [q EXCEPT !.pc = "done", !.status = 503, !.body = "backing service down"]

\* the /healthz handler
HandleHealth(q) == [q EXCEPT !.pc = "done", !.status = 200, !.body = "OK"]

\* the catch-all handler up to the round trip: the reverse proxy sends the
\* request on to the backing service and waits for its answer
HandleProxy(q) == [q EXCEPT !.pc = "proxying", !.forwarded = TRUE]

\* the status codes the backing service answers a forwarded request with
BackendStatuses == {200, 404}

\* the outcomes of the round trip: the answer of the backing service, whatever
\* its status, or no answer, which only a running service can avoid
ProxyOutcomes(backend) ==
    {[err |-> TRUE, code |-> 0]}
    \cup (IF backend = "running"
          THEN {[err |-> FALSE, code |-> c] : c \in BackendStatuses}
          ELSE {})

\* the catch-all handler after the round trip: the answer of the backing service
\* is passed on; the reverse proxy answers 502 Bad Gateway when there is none
HandleProxyEnd(q, out) ==
    IF out.err
    THEN [q EXCEPT !.pc = "done", !.status = 502, !.body = ""]
    ELSE [q EXCEPT !.pc = "done", !.status = out.code, !.body = "backend"]

\* a bug of the /sync handler: the method is not checked
HandleSyncBeginAnyMethod(q) == [q EXCEPT !.pc = "syncing", !.spawns = q.spawns + 1]

\* a bug of the /sync handler: a sync in progress turns the next one away
HandleSyncBeginSingleFlight(q) ==
    IF q.method # "POST"
    THEN [q EXCEPT !.pc = "done", !.status = 405, !.body = "Method not allowed\n"]
    ELSE IF \E r \in Req : slots[r].pc = "syncing"
    THEN [q EXCEPT !.pc = "done", !.status = 409, !.body = "Sync in progress\n"]
    ELSE [q EXCEPT !.pc = "syncing", !.spawns = q.spawns + 1]

\* the /sync handler up to cmd.Run: the method check and the spawn of `bw sync`
HandleSyncBegin(q) ==
    IF q.method # "POST"
    THEN [q EXCEPT !.pc = "done", !.status = 405, !.body = "Method not allowed\n"]
    ELSE [q EXCEPT !.pc = "syncing", !.spawns = q.spawns + 1]

\* the handler of a request up to its first blocking call
Handle(q) ==
    CASE Route(q.path) = "health" -> HandleHealth(q)
      [] Route(q.path) = "sync" -> HandleSyncBegin(q)
      [] OTHER -> HandleProxy(q)

\* a bug of the /sync handler: the error of cmd.Run is read the wrong way round
SyncRunFailedInverted(code) == code = 0

\* err != nil of cmd.Run in the /sync handler
SyncRunFailed(code) == code # 0

\* a bug of the /sync handler: the captured output is left out of the body
SyncErrorBodyWithoutOutput(out) == "Sync failed\n"

\* http.Error(w, fmt.Sprintf("Sync failed: %s", out.String()), ...): http.Error
\* writes the message and a newline
SyncErrorBody(out) == "Sync failed: " \o out \o "\n"

\* the /sync handler from the return of cmd.Run on
HandleSyncEnd(q, code, out) ==
    IF SyncRunFailed(code)
    THEN [q EXCEPT !.pc = "done", !.cmdExit = code, !.cmdOut = out, !.status = 500,
                   !.body = SyncErrorBody(out)]
    ELSE [q EXCEPT !.pc = "done", !.cmdExit = code, !.cmdOut = out, !.status = 200,
                   !.body = "Sync successful"]

\* the slot a request that arrives is kept in: the first free one (the server
\* has no slots; which one holds a request is of no consequence)
TakesSlot(r) ==
    /\ slots[r].pc = "free"
    /\ \A q \in 1..(r - 1) : slots[q].pc # "free"

\* a response is written: that of a request whose http.Post returned an error
\* has no reader, and nothing is left of the request when its handler returns
Respond(q) == IF q.pc = "done" /\ q.origin = "abandoned" THEN FreeSlot ELSE q

\* a client sends a request to the proxy server
ClientRequest ==
    /\ Alive /\ proxyPc = "listening"
    /\ \E r \in Req, method \in Methods, path \in Paths :
          /\ TakesSlot(r)
          /\ slots' = [slots EXCEPT ![r] = Handle(NewRequest("client", method, path))]
    /\ UNCHANGED <<env, exitCode, mainVars, sessionVars, serveVars, waitVars, proxyPc,
                   syncVars, unlockVars>>

\* the `bw sync` of a request exits and its handler writes the response
SyncCommandExit ==
    /\ Alive
    /\ \E r \in Req, code \in ExitCodes, out \in SyncOutputs :
          /\ slots[r].pc = "syncing"
          /\ slots' = [slots EXCEPT ![r] = Respond(HandleSyncEnd(slots[r], code, out))]
    /\ UNCHANGED <<env, exitCode, mainVars, sessionVars, serveVars, waitVars, proxyPc,
                   syncVars, unlockVars>>

\* the round trip of a forwarded request ends and its handler writes the response
ProxyRoundTrip ==
    /\ Alive
    /\ \E r \in Req :
          /\ slots[r].pc = "proxying"
          /\ \E out \in ProxyOutcomes(servePc) :
                slots' = [slots EXCEPT ![r] = HandleProxyEnd(slots[r], out)]
    /\ UNCHANGED <<env, exitCode, mainVars, sessionVars, serveVars, waitVars, proxyPc,
                   syncVars, unlockVars>>

\* a client has read its response
ClientDone ==
    /\ Alive
    /\ \E r \in Req :
          /\ slots[r].pc = "done" /\ slots[r].origin = "client"
          /\ slots' = [slots EXCEPT ![r] = FreeSlot]
    /\ UNCHANGED <<env, exitCode, mainVars, sessionVars, serveVars, waitVars, proxyPc,
                   syncVars, unlockVars>>

\* ------------------------------------------------------------------------
\* startPeriodicSync
\* ------------------------------------------------------------------------

\* a bug of startPeriodicSync: no fallback after a parse error
SyncIntervalOfNoFallback(e) ==
    ParseDuration(getEnv(e, "BW_SYNC_INTERVAL", "2m")).d

\* the interval startPeriodicSync hands to time.NewTicker
SyncIntervalOf(e) ==
    LET parsed == ParseDuration(getEnv(e, "BW_SYNC_INTERVAL", "2m")) IN
    IF parsed.err THEN DefaultSyncInterval ELSE parsed.d

\* startPeriodicSync prints its WARN line: time.ParseDuration returned an error
SyncIntervalInvalid(e) == ParseDuration(getEnv(e, "BW_SYNC_INTERVAL", "2m")).err

\* startPeriodicSync up to its loop; time.NewTicker panics on a non-positive interval
SyncStart ==
    /\ Alive /\ syncPc = "scheduled"
    /\ syncInterval' = SyncIntervalOf(env)
    /\ syncWarned' = SyncIntervalInvalid(env)
    /\ IF SyncIntervalOf(env) <= 0
       THEN /\ exitCode' = 2
            /\ UNCHANGED syncPc
       ELSE /\ syncPc' = "ticking"
            /\ UNCHANGED exitCode
    /\ UNCHANGED <<env, mainVars, sessionVars, serveVars, waitVars, proxyVars, syncReq,
                   tickPending, syncFailed, unlockVars>>

\* the ticker fires: the tick waits in its channel, or is dropped if one waits already
SyncTickerFires ==
    /\ Alive /\ syncPc \in {"ticking", "posting"}
    /\ tickPending' = TRUE
    /\ UNCHANGED <<env, exitCode, mainVars, sessionVars, serveVars, waitVars, proxyVars,
                   syncPc, syncInterval, syncReq, syncWarned, syncFailed, unlockVars>>

\* a bug of the loop: the POST is sent from a goroutine of its own
SyncPcAfterPostAsync(r) == "ticking"

\* http.Post returns only with the response or an error: the loop waits for it
SyncPcAfterPost(r) == "posting"

\* a bug of the loop: a failed tick ends it
SyncPcAfterTickStopOnFailure(failed) == IF failed THEN "stopped" ELSE "ticking"

\* after a tick, failed or not, the loop waits for the next one
SyncPcAfterTick(failed) == "ticking"

\* a tick: the loop takes it from the channel of the ticker and calls
\* http.Post, which sends the request and blocks
SyncTickReceive ==
    /\ Alive /\ syncPc = "ticking" /\ tickPending
    /\ tickPending' = FALSE
    /\ syncPc' = "posting"
    /\ UNCHANGED <<env, exitCode, mainVars, sessionVars, serveVars, waitVars, proxyVars,
                   syncInterval, syncReq, syncWarned, syncFailed, unlockVars>>

\* the proxy server takes the request of the periodic POST: its handler runs
\* up to cmd.Run, and http.Post stays blocked
SyncPostArrives ==
    /\ Alive /\ syncPc = "posting" /\ syncReq = 0 /\ proxyPc = "listening"
    /\ \E r \in Req :
          /\ TakesSlot(r)
          /\ slots' = [slots EXCEPT ![r] = Handle(NewRequest("periodic", "POST", "/sync"))]
          /\ syncReq' = r
          /\ syncPc' = SyncPcAfterPost(r)
    /\ UNCHANGED <<env, exitCode, mainVars, sessionVars, serveVars, waitVars, proxyPc,
                   syncInterval, syncWarned, tickPending, syncFailed, unlockVars>>

\* the request of a POST that returned an error: its handler, if one runs, goes
\* on without a reader
Abandon(sl, r) ==
    IF r = 0 THEN sl ELSE [sl EXCEPT ![r] = Respond([@ EXCEPT !.origin = "abandoned"])]

\* http.Post returns an error, before a handler took the request or while one
\* runs: logged, and the loop goes on
SyncPostNetErr ==
    /\ Alive /\ syncPc = "posting"
    /\ syncFailed' = TRUE
    /\ slots' = Abandon(slots, syncReq)
    /\ syncReq' = 0
    /\ syncPc' = SyncPcAfterTick(TRUE)
    /\ UNCHANGED <<env, exitCode, mainVars, sessionVars, serveVars, waitVars, proxyPc,
                   syncInterval, syncWarned, tickPending, unlockVars>>

\* the response of the periodic POST: logged unless 200, and the loop goes on
SyncResponse ==
    /\ Alive /\ syncPc = "posting" /\ syncReq # 0
    /\ slots[syncReq].pc = "done"
    /\ syncFailed' = (slots[syncReq].status # 200)
    /\ slots' = [slots EXCEPT ![syncReq] = FreeSlot]
    /\ syncReq' = 0
    /\ syncPc' = SyncPcAfterTick(slots[syncReq].status # 200)
    /\ UNCHANGED <<env, exitCode, mainVars, sessionVars, serveVars, waitVars, proxyPc,
                   syncInterval, syncWarned, tickPending, unlockVars>>

\* ------------------------------------------------------------------------
\* The sidecar
\* ------------------------------------------------------------------------

Next ==
    \/ LoginCheckSecrets
    \/ LoginConfig
    \/ LoginLogin
    \/ LoginUnlock
    \/ MainSetenv
    \/ MainGoServe
    \/ ServeSpawn
    \/ ServeExit
    \/ WaitGetIssue
    \/ WaitGetReturn
    \/ WaitSleep
    \/ WaitTimeout
    \/ MainGoProxy
    \/ MainGoSync
    \/ ProxyListen
    \/ ClientRequest
    \/ SyncCommandExit
    \/ ProxyRoundTrip
    \/ ClientDone
    \/ SyncStart
    \/ SyncTickerFires
    \/ SyncTickReceive
    \/ SyncPostArrives
    \/ SyncPostNetErr
    \/ SyncResponse

Spec == Init /\ [][Next]_vars

\* the steps of the main goroutine up to the start of the proxy server
MainStartup ==
    \/ LoginCheckSecrets
    \/ LoginConfig
    \/ LoginLogin
    \/ LoginUnlock
    \/ MainSetenv
    \/ MainGoServe
    \/ WaitGetIssue
    \/ WaitGetReturn
    \/ WaitSleep
    \/ WaitTimeout
    \/ MainGoProxy

\* the startup of the sidecar: main up to the start of the proxy server, and
\* the startBwServe goroutine
NextStartup ==
    \/ LoginCheckSecrets
    \/ LoginConfig
    \/ LoginLogin
    \/ LoginUnlock
    \/ MainSetenv
    \/ MainGoServe
    \/ ServeSpawn
    \/ ServeExit
    \/ WaitGetIssue
    \/ WaitGetReturn
    \/ WaitSleep
    \/ WaitTimeout
    \/ MainGoProxy

\* every external command terminates and every status GET returns within its
\* timeout, so the main goroutine always takes its next step
SpecStartup == Init /\ [][NextStartup]_vars /\ WF_vars(MainStartup)

\* ------------------------------------------------------------------------
\* Properties
\* ------------------------------------------------------------------------

\* the proxy server or the periodic sync has been started, or a request is handled
ProxyOrSyncStarted ==
    \/ proxyPc # "off"
    \/ syncPc # "off"
    \/ \E r \in Req : slots[r].pc # "free"

\* `bw serve` has been spawned
ServeSpawned == servePc \in {"running", "returned", "failed"}

\* C1: the proxy server and the periodic sync are started, and requests are
\* handled, only after waitForBwServe has returned success; after a timeout
\* they are never started.
C1_ReadinessBeforeProxy ==
    /\ ProxyOrSyncStarted => waitResult = "ok"
    /\ waitResult = "timeout" => ~ProxyOrSyncStarted /\ exitCode = 1

\* C1 witness: after readiness the proxy has forwarded a request while the
\* periodic sync loop runs
C1_Witness ==
    /\ waitResult = "ok"
    /\ syncPc = "ticking"
    /\ \E r \in Req : slots[r].pc = "done" /\ slots[r].forwarded

\* C2 (as claimed): once `bw serve` has terminated, with whatever status, the
\* sidecar has exited with a non-zero status.
C2_ServeExitIsFatal ==
    servePc \in {"returned", "failed"} => exitCode \notin {Running, 0}

\* C3: `bw serve` (and every other concurrent task) is started only after
\* loginAndGetSession returned a token and BW_SESSION was set to it; BW_SESSION
\* is written once, and never again once a concurrent task exists.
C3_SessionBeforeServe ==
    /\ [](/\ setenvCount <= 1
          /\ (servePc # "none" \/ ProxyOrSyncStarted) =>
                /\ setenvCount = 1
                /\ bwSession = sessionToken
                /\ spawned[Len(spawned) - (IF ServeSpawned THEN 1 ELSE 0)] = "unlock"
          /\ ServeSpawned => serveSession = bwSession)
    /\ [][(servePc # "none" \/ ProxyOrSyncStarted) => UNCHANGED <<bwSession, setenvCount>>]_vars

\* C3 witness: `bw serve` runs with the token that BW_SESSION holds
C3_Witness ==
    /\ servePc = "running"
    /\ setenvCount = 1
    /\ bwSession = <<"k">>
    /\ serveSession = <<"k">>

\* C4: waitForBwServe returns success only after startBwServe has spawned
\* the `bw serve` child process.
C4_LaunchBeforeReady == waitResult = "ok" => ServeSpawned

\* C4 witness: main polled before, and succeeded after, the spawn of `bw serve`
C4_Witness ==
    /\ mainPc = "ready"
    /\ waitResult = "ok"
    /\ gets > 1
    /\ servePc = "running"

\* C5: waitForBwServe never issues more than bwServeWaitRetries GETs; an
\* attempt that fails, for whatever reason, goes on to the retry sleep and
\* uses up one attempt; the timeout error is returned after exactly
\* bwServeWaitRetries GETs.
C5_TimeoutAfterAllAttempts ==
    /\ [](/\ gets <= bwServeWaitRetries
          /\ (waitResult = "timeout" =>
                gets = bwServeWaitRetries /\ i = bwServeWaitRetries /\ lastKind # "unlocked")
          /\ (mainPc = "wait" /\ waitResult = "none" => gets = i)
          /\ (mainPc \in {"getting", "sleep"} => gets = i + 1))
    /\ [][mainPc = "getting" /\ mainPc' # "getting"
             /\ lastKind' \in {"neterr", "non200", "readerr", "badjson", "locked"}
             => mainPc' = "sleep" /\ waitResult' = "none" /\ exitCode' = exitCode
                /\ gets' = gets /\ i' = i]_vars

\* C5 witness: the timeout after the last attempt failed on an invalid body
C5_Witness ==
    /\ waitResult = "timeout"
    /\ gets = bwServeWaitRetries
    /\ lastKind = "badjson"

\* C6: an attempt whose response is a 200 with an unlocked body makes
\* waitForBwServe return success at once, with one sleep less than GETs,
\* and only such an attempt does; no GET or sleep follows.
C6_SuccessIsImmediate ==
    /\ [](/\ (lastKind = "unlocked" =>
                mainPc = "ready" /\ waitResult = "ok" /\ sleeps = gets - 1)
          /\ (mainPc = "ready" => waitResult = "ok" /\ lastKind = "unlocked"))
    /\ [][mainPc = "ready" => gets' <= gets /\ sleeps' <= sleeps]_vars

\* C6 witness: success on the first attempt without any sleep
C6_Witness ==
    /\ mainPc = "ready"
    /\ gets = 1
    /\ sleeps = 0

\* strconv.Atoi of the retry counts of the model
RetriesOf(str) == IF str = "2" THEN 2 ELSE bwServeWaitRetries

\* C7 (as claimed): with BW_SERVE_WAIT_RETRIES set to n, waitForBwServe makes
\* at most n attempts.
C7_EnvRetriesHonoured ==
    env["BW_SERVE_WAIT_RETRIES"] # Unset => gets <= RetriesOf(env["BW_SERVE_WAIT_RETRIES"])

\* C8: isUnlocked returns true exactly when data.template.status, data.status
\* or status, reached through objects, is the string "unlocked".
C8_UnlockTruthTable ==
    unlockResult # "none" =>
        (unlockResult = "true" <=> UnlockSignal(payload.m))

\* C8 witness: data.status is "unlocked" below a wrong-typed template and a
\* wrong-typed top-level status
C8_Witness ==
    /\ unlockResult = "true"
    /\ payload = JObj([status |-> JNum,
                       data |-> JObj([status |-> JStr("unlocked"), template |-> JArr])])

\* the commands of a complete startup, in order
StartupOrder(e) ==
    (IF Getenv(e, "BW_HOST") # "" THEN <<"config">> ELSE <<>>)
        \o <<"login", "unlock", "serve">>

\* s is a prefix of t
IsPrefix(s, t) == Len(s) <= Len(t) /\ s = SubSeq(t, 1, Len(s))

\* C9: the startup commands are spawned in the order config (only with a
\* host), login, unlock, each at most once; with a secret missing none is
\* spawned; after a failed command none follows; and on each of these
\* failures the sidecar exits with status 1 and `bw serve` is never spawned.
C9_LoginSequence ==
    /\ IsPrefix(spawned, StartupOrder(env))
    /\ SecretsMissing(env) => spawned = <<>>
    /\ SecretsMissing(env) /\ mainPc # "secrets" => exitCode = 1
    /\ mainPc \in {"secrets", "config", "login", "unlock"} =>
          /\ ~ServeSpawned /\ servePc = "none"
          /\ exitCode \in {Running, 1}
          /\ exitCode = 1 /\ mainPc # "secrets" => spawned[Len(spawned)] = mainPc
          /\ exitCode = Running /\ mainPc # "secrets" => mainPc \notin {spawned[n] : n \in 1..Len(spawned)}

\* C9 witness: with a host set, config succeeded and login failed
C9_Witness ==
    /\ mainPc = "login"
    /\ exitCode = 1
    /\ spawned = <<"config", "login">>

\* C10: a POST /sync has spawned exactly one `bw sync`; its response is 200
\* with body `Sync successful` exactly when that command exited with 0 and
\* 500 exactly when it exited otherwise.
C10_SyncResponseOwnOutcome ==
    \A r \in Req :
        slots[r].path = "/sync" /\ slots[r].method = "POST" =>
            /\ slots[r].pc \in {"syncing", "done"}
            /\ slots[r].spawns = 1
            /\ slots[r].pc = "done" =>
                  /\ slots[r].status \in {200, 500}
                  /\ slots[r].cmdExit \in ExitCodes
                  /\ (slots[r].status = 200 /\ slots[r].body = "Sync successful")
                        <=> slots[r].cmdExit = 0
                  /\ slots[r].status = 500 <=> slots[r].cmdExit # 0

\* C10 witness: two POST /sync answered, one 500 and one 200, each after its
\* own command
C10_Witness ==
    \E r, q \in Req :
        /\ slots[r].pc = "done" /\ slots[r].path = "/sync" /\ slots[r].status = 500
        /\ slots[r].cmdExit = 1
        /\ slots[q].pc = "done" /\ slots[q].path = "/sync" /\ slots[q].status = 200
        /\ slots[q].cmdExit = 0

\* C11 (as claimed): the body of a 500 response of /sync is the captured
\* output of the command, verbatim.
C11_BodyIsOutputVerbatim ==
    \A r \in Req :
        slots[r].pc = "done" /\ slots[r].path = "/sync" /\ slots[r].status = 500 =>
            slots[r].body = slots[r].cmdOut

\* C11 (amended): the body of a 500 response of /sync is `Sync failed: `, the
\* captured output of the request's command, and a newline.
C11_BodyIsPrefixedOutput ==
    \A r \in Req :
        slots[r].pc = "done" /\ slots[r].path = "/sync" /\ slots[r].cmdExit \notin {Running, 0} =>
            /\ slots[r].status = 500
            /\ slots[r].body = "Sync failed: " \o slots[r].cmdOut \o "\n"

\* C11 witness: a failed sync that printed `boom`
C11_Witness ==
    \E r \in Req :
        /\ slots[r].pc = "done" /\ slots[r].path = "/sync" /\ slots[r].status = 500
        /\ slots[r].cmdOut = "boom"
        /\ slots[r].body = "Sync failed: boom\n"

\* C12: a /sync request with another method than POST is answered 405,
\* spawns no command and is not forwarded, whatever the backing service and
\* the other requests do.
C12_WrongMethodIs405 ==
    \A r \in Req :
        slots[r].path = "/sync" /\ slots[r].method # "POST" =>
            /\ slots[r].pc = "done"
            /\ slots[r].status = 405
            /\ slots[r].spawns = 0
            /\ slots[r].cmdExit = Running
            /\ ~slots[r].forwarded

\* C12 witness: GET /sync answered 405 while a sync command runs and the
\* backing service is gone
C12_Witness ==
    \E r, q \in Req :
        /\ slots[r].pc = "done" /\ slots[r].path = "/sync" /\ slots[r].method = "GET"
        /\ slots[r].status = 405
        /\ slots[q].pc = "syncing"
        /\ servePc = "returned"

\* C13: a POST /sync that arrives spawns its command at once, whatever sync
\* commands are running, and leaves the other requests alone.
C13_SyncNeverWaits ==
    [][\A r \in Req :
          /\ slots[r].pc = "free"
          /\ slots'[r].path = "/sync" /\ slots'[r].method = "POST"
          => /\ slots'[r].pc = "syncing"
             /\ slots'[r].spawns = 1
             /\ \A q \in Req \ {r} : slots'[q] = slots[q]]_vars

\* C13 witness: two `bw sync` commands run at the same time, one of a client
\* and one of the periodic sync
C13_Witness ==
    \E r, q \in Req :
        /\ slots[r].pc = "syncing" /\ slots[r].origin = "client"
        /\ slots[q].pc = "syncing" /\ slots[q].origin = "periodic"

\* a slot is free for a request
SlotFree == \E r \in Req : slots[r].pc = "free"

\* C14: the periodic loop, once it runs, never ends; the sidecar exits while
\* it runs only because `bw serve` or the proxy server failed; and after a
\* failed tick the loop takes the next tick and its POST can reach the server.
C14_FailedSyncKeepsLoop ==
    /\ [][(syncPc \in {"ticking", "posting"}) =>
             (/\ syncPc' \in {"ticking", "posting"}
              /\ (exitCode' # exitCode =>
                     exitCode' = 1 /\ (servePc' = "failed" \/ proxyPc = "scheduled")))]_vars
    /\ [](Alive /\ syncFailed /\ syncPc # "posting" =>
             /\ syncPc = "ticking"
             /\ ENABLED SyncTickerFires
             /\ (tickPending => ENABLED SyncTickReceive))
    /\ [](Alive /\ syncPc = "posting" /\ syncReq = 0 /\ proxyPc = "listening" /\ SlotFree
             => ENABLED SyncPostArrives)

\* C14 witness: the periodic sync posts again after a failed tick
C14_Witness ==
    /\ Alive
    /\ syncFailed
    /\ syncPc = "posting"
    /\ syncReq # 0

\* C15: a /healthz request is answered 200 `OK` without a forward to the
\* backing service and without a command.
C15_HealthIsLocal ==
    \A r \in Req :
        slots[r].path = "/healthz" =>
            /\ slots[r].pc = "done"
            /\ slots[r].status = 200
            /\ slots[r].body = "OK"
            /\ ~slots[r].forwarded
            /\ slots[r].spawns = 0
            /\ slots[r].cmdExit = Running

\* C15 witness: /healthz answered after `bw serve` has terminated
C15_Witness ==
    \E r \in Req :
        /\ slots[r].pc = "done" /\ slots[r].path = "/healthz" /\ slots[r].status = 200
        /\ servePc = "returned"

\* C16: with an unparsable BW_SYNC_INTERVAL startPeriodicSync warns, takes
\* 2 minutes and runs its loop; it does not end the process.
C16_InvalidIntervalFallsBack ==
    /\ [](env["BW_SYNC_INTERVAL"] = "abc" =>
             /\ exitCode # 2
             /\ syncPc \notin {"off", "scheduled"} =>
                   /\ syncPc \in {"ticking", "posting"}
                   /\ syncInterval = 120000
                   /\ syncWarned)
    /\ [][(env["BW_SYNC_INTERVAL"] = "abc" /\ syncPc = "scheduled" /\ syncPc' # syncPc)
             => (syncPc' = "ticking" /\ exitCode' = exitCode)]_vars

\* C16 witness: the loop posts with the fallback interval after the warning
C16_Witness ==
    /\ env["BW_SYNC_INTERVAL"] = "abc"
    /\ syncWarned
    /\ syncInterval = 120000
    /\ syncPc = "posting"

\* C17: with BW_DISABLE_SYNC=true the periodic loop is never started and no
\* request or command is of the periodic sync.
C17_DisabledSyncNeverPosts ==
    env["BW_DISABLE_SYNC"] = "true" =>
        /\ syncPc = "off"
        /\ syncReq = 0
        /\ ~tickPending
        /\ \A r \in Req : slots[r].pc # "free" => slots[r].origin = "client"

\* C17 witness: with the periodic sync disabled the proxy serves /healthz
\* and a manual sync
C17_Witness ==
    /\ env["BW_DISABLE_SYNC"] = "true"
    /\ mainPc = "blocked"
    /\ proxyPc = "listening"
    /\ \E r, q \in Req :
          /\ slots[r].pc = "done" /\ slots[r].path = "/sync" /\ slots[r].status = 200
          /\ slots[r].spawns = 1
          /\ slots[q].pc = "done" /\ slots[q].path = "/healthz"

\* a required secret is not in the environment
ASecretIsAbsent ==
    \E k \in {"BW_CLIENTID", "BW_CLIENTSECRET", "BW_PASSWORD"} : env[k] \in {Unset, ""}

\* C18: the startup ends: the proxy server is started after readiness, or
\* the sidecar has exited with 1; a missing secret, a failed command, a
\* failed Setenv and the timeout end in the exit with 1; and the sidecar
\* never exits with 0.
C18_StartupTerminates ==
    /\ <>((waitResult = "ok" /\ proxyPc # "off") \/ exitCode = 1)
    /\ [](/\ exitCode # 0
          /\ ASecretIsAbsent => proxyPc = "off" /\ (mainPc = "secrets" \/ exitCode = 1)
          /\ mainPc \in {"secrets", "config", "login", "unlock", "setenv", "wait", "getting",
                     "sleep"} =>
                exitCode \in {Running, 1} /\ proxyPc = "off"
          /\ waitResult = "timeout" => exitCode = 1 /\ proxyPc = "off"
          /\ proxyPc # "off" => waitResult = "ok" /\ setenvCount = 1)

\* C18 witness: readiness confirmed and the proxy server started
C18_Witness ==
    /\ mainPc = "goSync"
    /\ waitResult = "ok"
    /\ proxyPc = "scheduled"
    /\ exitCode = Running

\* the requests of the periodic sync whose handler has not returned
PeriodicInFlight ==
    {r \in Req : slots[r].pc # "free" /\ slots[r].origin \in {"periodic", "abandoned"}}

\* the requests of the periodic sync whose http.Post has not returned
PeriodicAwaited == {r \in Req : slots[r].pc # "free" /\ slots[r].origin = "periodic"}

\* C19 (as claimed): at most one request of the periodic sync is in flight,
\* so at most one `bw sync` of the periodic sync runs at any time.
C19_PeriodicNeverOverlaps ==
    /\ Cardinality(PeriodicInFlight) <= 1
    /\ Cardinality({r \in PeriodicInFlight : slots[r].pc = "syncing"}) <= 1

\* C19 (amended): the loop waits for at most one http.Post, the one of the
\* last tick it took, and takes the next tick only after that call returned;
\* a `bw sync` of the periodic sync runs beside the awaited one only when the
\* http.Post of its request returned an error before its handler did.
C19_OnePostAwaited ==
    /\ [](/\ Cardinality(PeriodicAwaited) <= 1
          /\ (syncReq # 0 => syncPc = "posting" /\ PeriodicAwaited = {syncReq})
          /\ (syncReq = 0 => PeriodicAwaited = {}))
    /\ [][/\ (tickPending /\ ~tickPending' => syncPc = "ticking" /\ syncReq = 0)
          /\ (PeriodicAwaited' # PeriodicAwaited /\ PeriodicAwaited' # {}
                 => syncPc = "posting" /\ PeriodicAwaited = {})
          /\ (\A r \in Req :
                 slots'[r].origin = "abandoned" /\ slots[r].origin # "abandoned"
                 => r = syncReq /\ syncPc = "posting" /\ syncFailed' /\ syncReq' = 0)]_vars

\* C19 witness: a tick fired while the command of the awaited POST runs, and
\* it waits; the command of an earlier POST, which returned an error, still runs
C19_Witness ==
    /\ syncPc = "posting"
    /\ syncReq # 0
    /\ tickPending
    /\ slots[syncReq].pc = "syncing"
    /\ \E r \in Req : slots[r].pc = "syncing" /\ slots[r].origin = "abandoned"

\* C20 (as claimed): the interval handed to the ticker is positive and the
\* start of the periodic sync never ends the process.
C20_IntervalAlwaysPositive ==
    /\ exitCode # 2
    /\ syncPc \in {"ticking", "posting"} => syncInterval > 0

====
